---- MODULE Spec2Model ----
(***************************************************************************)
(* Model of SectionRanker (Challenge_1b/src/section_ranker.py).            *)
(*                                                                         *)
(* Texts are sequences of one-character strings, so that str.lower() and   *)
(* str.split() are modelled by what they do.  Dictionaries are functions   *)
(* whose DOMAIN is the set of keys present.  Section dictionaries live in  *)
(* a heap (objects) and lists hold references into it, as in Python.       *)
(* Floats are fixed-point integers: the integer v stands for v / SCALE.    *)
(***************************************************************************)
EXTENDS Integers, Sequences, FiniteSets, TLC

VARIABLES objects, doc_sections, user_persona, job_details, context_data,
          ranked_sections, frames, made, input_objects, pc

vars == <<objects, doc_sections, user_persona, job_details, context_data,
          ranked_sections, frames, made, input_objects, pc>>

(***************************************************************************)
(* Bounds of the model.                                                    *)
(***************************************************************************)
MaxSections == 2
MaxContentPieces == 3
MaxRolePieces == 2
MaxTokens == 510

(***************************************************************************)
(* Fixed-point floats.                                                     *)
(***************************************************************************)
SCALE == 10 ^ 6

Tenths(n) == (n * SCALE) \div 10

Min(a, b) == IF a <= b THEN a ELSE b

Max(a, b) == IF a >= b THEN a ELSE b

(***************************************************************************)
(* Strings.                                                                *)
(***************************************************************************)
UpperCase == <<"A","B","C","D","E","F","G","H","I","J","K","L","M",
               "N","O","P","Q","R","S","T","U","V","W","X","Y","Z">>

LowerCase == <<"a","b","c","d","e","f","g","h","i","j","k","l","m",
               "n","o","p","q","r","s","t","u","v","w","x","y","z">>

Whitespace == {" ", "\t", "\n", "\r"}

Range(s) == {s[i] : i \in 1..Len(s)}

LowerChar(c) ==
    IF \E i \in 1..26 : UpperCase[i] = c
    THEN LowerCase[CHOOSE i \in 1..26 : UpperCase[i] = c]
    ELSE c

\* str.lower()
Lower(text) == [i \in 1..Len(text) |-> LowerChar(text[i])]

\* str.split() without arguments: the maximal runs of non-whitespace
\* characters, in order.  SplitRange splits text[lo..hi] by halving; a word
\* that runs across the middle is joined again.
RECURSIVE SplitRange(_, _, _)
SplitRange(text, lo, hi) ==
    IF lo > hi THEN <<>>
    ELSE IF lo = hi
    THEN IF text[lo] \in Whitespace THEN <<>> ELSE << <<text[lo]>> >>
    ELSE LET mid == (lo + hi) \div 2
             left == SplitRange(text, lo, mid)
             right == SplitRange(text, mid + 1, hi)
         IN  IF text[mid] \notin Whitespace /\ text[mid + 1] \notin Whitespace
             THEN SubSeq(left, 1, Len(left) - 1)
                  \o << left[Len(left)] \o right[1] >>
                  \o Tail(right)
             ELSE left \o right

Split(text) == SplitRange(text, 1, Len(text))

\* collections.Counter(word_list)
Counter(word_list) ==
    [w \in Range(word_list) |->
        Cardinality({i \in 1..Len(word_list) : word_list[i] = w})]

\* dict.get(key, default)
Get(d, key, default) == IF key \in DOMAIN d THEN d[key] ELSE default

EmptyDict == <<>>

(***************************************************************************)
(* math.log(1 + 1 / c) in fixed point, for an integer c >= 1:              *)
(* ln((c+1)/c) = 2 * atanh(1/(2c+1)) = 2 * SUM_k 1/((2k+1) (2c+1)^(2k+1)). *)
(***************************************************************************)
RECURSIVE AtanhSeries(_, _, _)
AtanhSeries(t, k, q2) ==
    IF t = 0 THEN 0 ELSE (t \div (2 * k + 1)) + AtanhSeries(t \div q2, k + 1, q2)

LogOnePlusInverse(c) ==
    2 * AtanhSeries(SCALE \div (2 * c + 1), 0, (2 * c + 1) * (2 * c + 1))

(***************************************************************************)
(* The scorers.                                                            *)
(***************************************************************************)
ComputePositionWeight(doc_section) ==
    LET idx == Get(doc_section, "position", 0)
    IN  IF idx < 3 THEN Tenths(10)
        ELSE IF idx < 10 THEN Tenths(8)
        ELSE Tenths(6)

\* a faulty variant of the keyword extractor: .lower() forgotten
ExtractContextKeywordsCaseSensitive(role_info, task_info) ==
    LET combined_text == role_info \o <<" ">> \o task_info
    IN  {word \in Range(Split(combined_text)) : Len(word) > 2}

ExtractContextKeywords(role_info, task_info) ==
    LET combined_text == Lower(role_info \o <<" ">> \o task_info)
    IN  {word \in Range(Split(combined_text)) : Len(word) > 2}

CalculateWordFrequencies(text_content) ==
    LET word_list == Split(Lower(text_content))
    IN  Counter(word_list)

BuildPersonaContext(persona, job) ==
    [persona_role |-> Get(persona, "role", <<>>),
     job_context  |-> Get(job, "task", <<>>)]

\* a faulty variant of the length scorer: brackets closed on the upper bound
AssessContentLengthInclusiveUpper(text_content) ==
    LET word_count == Len(Split(text_content))
    IN  IF word_count <= 10 THEN Tenths(3)
        ELSE IF word_count <= 50 THEN Tenths(8)
        ELSE IF word_count <= 200 THEN Tenths(10)
        ELSE IF word_count <= 500 THEN Tenths(7)
        ELSE Tenths(4)

AssessContentLength(text_content) ==
    LET word_count == Len(Split(text_content))
    IN  IF word_count < 10 THEN Tenths(3)
        ELSE IF word_count < 50 THEN Tenths(8)
        ELSE IF word_count < 200 THEN Tenths(10)
        ELSE IF word_count < 500 THEN Tenths(7)
        ELSE Tenths(4)

\* the keywords for which the loop body of _sum_keyword_scores runs
MatchedKeywords(keywords, word_freq) == keywords \cap DOMAIN word_freq

\* word_freq[keyword] / total_count raises ZeroDivisionError
SumKeywordScoresRaises(keywords, word_freq, total_count) ==
    MatchedKeywords(keywords, word_freq) # {} /\ total_count = 0

RECURSIVE SumTerms(_, _, _)
SumTerms(matched, word_freq, total_count) ==
    IF matched = {} THEN 0
    ELSE LET keyword == CHOOSE k \in matched : TRUE
             inverse_doc_freq == LogOnePlusInverse(Max(1, word_freq[keyword]))
             \* term_frequency * inverse_doc_freq, dividing last
             term == (word_freq[keyword] * inverse_doc_freq) \div total_count
         IN  term + SumTerms(matched \ {keyword}, word_freq, total_count)

SumKeywordScores(keywords, word_freq, total_count) ==
    SumTerms(MatchedKeywords(keywords, word_freq), word_freq, total_count)

\* a faulty variant of total_words: the separators are counted, not the words
TotalWordsSeparators(text_content) ==
    Cardinality({i \in 1..Len(text_content) : text_content[i] \in Whitespace})

TotalWords(text_content) == Len(Split(Lower(text_content)))

(***************************************************************************)
(* _compute_tfidf_relevance.  The result is the frame of the call: the     *)
(* locals that were assigned, "denominators" (the values of total_count    *)
(* that a division used), and "return" unless the call raised.             *)
(***************************************************************************)
\* a faulty variant of the semantic scorer: the default for an empty keyword set
\* is forgotten
ComputeTfidfRelevanceNoDefault(text_content, context) ==
    LET role_keywords == ExtractContextKeywords(
                             Get(context, "persona_role", <<>>),
                             Get(context, "job_context", <<>>))
        word_frequencies == CalculateWordFrequencies(text_content)
        total_words == TotalWords(text_content)
        divides == MatchedKeywords(role_keywords, word_frequencies) # {}
        locals == [role_keywords |-> role_keywords,
                   word_frequencies |-> word_frequencies,
                   total_words |-> total_words,
                   denominators |-> IF divides THEN {total_words} ELSE {}]
    IN  IF SumKeywordScoresRaises(role_keywords, word_frequencies, total_words)
        THEN locals
        ELSE ("return" :> Min(SumKeywordScores(role_keywords, word_frequencies,
                                               total_words), SCALE)) @@ locals

ComputeTfidfRelevance(text_content, context) ==
    LET role_keywords == ExtractContextKeywords(
                             Get(context, "persona_role", <<>>),
                             Get(context, "job_context", <<>>))
        word_frequencies == CalculateWordFrequencies(text_content)
        total_words == TotalWords(text_content)
        divides == MatchedKeywords(role_keywords, word_frequencies) # {}
        locals == [role_keywords |-> role_keywords,
                   word_frequencies |-> word_frequencies,
                   total_words |-> total_words,
                   denominators |-> IF divides THEN {total_words} ELSE {}]
    IN  IF role_keywords = {}
        THEN [role_keywords |-> role_keywords, denominators |-> {},
              return |-> Tenths(5)]
        ELSE IF SumKeywordScoresRaises(role_keywords, word_frequencies,
                                       total_words)
        THEN locals
        ELSE ("return" :> Min(SumKeywordScores(role_keywords, word_frequencies,
                                               total_words), SCALE)) @@ locals

(***************************************************************************)
(* _compute_final_score.  The result is the frame of the call, as above.   *)
(* A local that was never assigned is absent from the frame: the semantic, *)
(* length and position scorers ran iff their results are present.          *)
(***************************************************************************)
\* a faulty variant of the blend: the length term is subtracted
FinalScoreBlendSubtractsLength(semantic_score, length_weight, position_weight) ==
    (6 * semantic_score - 3 * length_weight + 1 * position_weight) \div 10

FinalScoreBlend(semantic_score, length_weight, position_weight) ==
    (6 * semantic_score + 3 * length_weight + 1 * position_weight) \div 10

ScoreContent(section_content, doc_section, context) ==
    LET tfidf == ComputeTfidfRelevance(section_content, context)
    IN  IF "return" \notin DOMAIN tfidf
        THEN [section_content |-> section_content, tfidf |-> tfidf]
        ELSE LET semantic_score == tfidf["return"]
                 length_weight == AssessContentLength(section_content)
                 position_weight == ComputePositionWeight(doc_section)
                 final_score == FinalScoreBlend(semantic_score, length_weight,
                                                position_weight)
             IN  [section_content |-> section_content,
                  tfidf |-> tfidf,
                  semantic_score |-> semantic_score,
                  length_weight |-> length_weight,
                  position_weight |-> position_weight,
                  final_score |-> final_score,
                  return |-> Min(final_score, SCALE)]

\* a faulty variant of the composite scorer: the check for empty content is forgotten
ComputeFinalScoreNoEmptyCheck(doc_section, context) ==
    ScoreContent(Get(doc_section, "content", <<>>), doc_section, context)

ComputeFinalScore(doc_section, context) ==
    LET section_content == Get(doc_section, "content", <<>>)
    IN  IF section_content = <<>>
        THEN [section_content |-> section_content, return |-> 0]
        ELSE ScoreContent(section_content, doc_section, context)

(***************************************************************************)
(* Dictionaries and lists on the heap.                                     *)
(***************************************************************************)
\* faulty variants of dict.copy(): no copy at all, and a copy of the known fields
DictAlias(objs, ref) == [ref |-> ref, objs |-> objs]

DictCopyKnownFields(objs, ref) ==
    [ref  |-> Len(objs) + 1,
     objs |-> Append(objs, [k \in DOMAIN objs[ref] \cap {"content", "position"}
                               |-> objs[ref][k]])]

\* dict.copy(): a new dictionary with the same keys and values
DictCopy(objs, ref) ==
    [ref |-> Len(objs) + 1, objs |-> Append(objs, objs[ref])]

\* d[key] = value
SetItem(objs, ref, key, value) ==
    [objs EXCEPT ![ref] = (key :> value) @@ @]

\* key=lambda x: x.get('relevance_score', 0)
SortKey(objs, ref) == Get(objs[ref], "relevance_score", 0)

Reverse(list) == [i \in 1..Len(list) |-> list[Len(list) + 1 - i]]

RECURSIVE StableSortAscending(_, _)
StableSortAscending(objs, list) ==
    IF list = <<>> THEN <<>>
    ELSE LET n == Len(list)
             sorted == StableSortAscending(objs, SubSeq(list, 1, n - 1))
             last == list[n]
             \* the last element goes after every element that is not greater
             p == Cardinality({i \in 1..(n - 1) :
                     SortKey(objs, sorted[i]) <= SortKey(objs, last)})
         IN  SubSeq(sorted, 1, p) \o <<last>> \o SubSeq(sorted, p + 1, n - 1)

\* faulty variants of the sort: reverse=True forgotten, and a sort that
\* reverses the ascending result without reversing the input first
ListSortNotReversed(objs, list) == StableSortAscending(objs, list)

ListSortThenReverse(objs, list) == Reverse(StableSortAscending(objs, list))

\* list.sort(key=..., reverse=True): the list is reversed, sorted stably in
\* ascending order and reversed again, which keeps equal keys in input order
ListSortReverse(objs, list) ==
    Reverse(StableSortAscending(objs, Reverse(list)))

(***************************************************************************)
(* rank_sections, one action per step.                                     *)
(***************************************************************************)
\* if not doc_sections: return []
RankEmpty ==
    /\ pc = "start"
    /\ doc_sections = <<>>
    /\ ranked_sections' = <<>>
    /\ pc' = "done"
    /\ UNCHANGED <<objects, doc_sections, user_persona, job_details,
                   context_data, frames, made, input_objects>>

\* context_data = self._build_persona_context(...); ranked_sections = []
BuildContext ==
    /\ pc = "start"
    /\ doc_sections # <<>>
    /\ context_data' = BuildPersonaContext(user_persona, job_details)
    /\ ranked_sections' = <<>>
    /\ pc' = "loop"
    /\ UNCHANGED <<objects, doc_sections, user_persona, job_details,
                   frames, made, input_objects>>

\* one iteration of the loop over doc_sections
ScoreSection ==
    /\ pc = "loop"
    /\ Len(ranked_sections) < Len(doc_sections)
    /\ LET doc_section == doc_sections[Len(ranked_sections) + 1]
           frame == ComputeFinalScore(objects[doc_section], context_data)
       IN  /\ frames' = Append(frames, frame)
           /\ IF "return" \notin DOMAIN frame
              THEN /\ pc' = "raised"
                   /\ UNCHANGED <<objects, ranked_sections, made>>
              ELSE LET relevance_value == frame["return"]
                       copied == DictCopy(objects, doc_section)
                       updated_section == copied.ref
                       objs1 == SetItem(copied.objs, updated_section,
                                        "relevance_score", relevance_value)
                       objs2 == SetItem(objs1, updated_section,
                                        "final_relevance_score", relevance_value)
                   IN  /\ objects' = objs2
                       /\ ranked_sections' = Append(ranked_sections,
                                                    updated_section)
                       /\ made' = Append(made, updated_section)
                       /\ pc' = "loop"
    /\ UNCHANGED <<doc_sections, user_persona, job_details, context_data,
                   input_objects>>

\* ranked_sections.sort(...); return ranked_sections
SortAndReturn ==
    /\ pc = "loop"
    /\ Len(ranked_sections) = Len(doc_sections)
    /\ ranked_sections' = ListSortReverse(objects, ranked_sections)
    /\ pc' = "done"
    /\ UNCHANGED <<objects, doc_sections, user_persona, job_details,
                   context_data, frames, made, input_objects>>

Next == RankEmpty \/ BuildContext \/ ScoreSection \/ SortAndReturn

(***************************************************************************)
(* Inputs.                                                                 *)
(***************************************************************************)
ContentPieces == {<<" ">>, <<"a", "b">>, <<"A", "b", "c">>, <<"x", "y", "z">>}

RolePieces == {<<" ">>, <<"a", "b">>, <<"A", "b", "c">>}

\* the texts made of at most n pieces
RECURSIVE TextsOf(_, _)
TextsOf(pieces, n) ==
    IF n = 0 THEN {<<>>}
    ELSE TextsOf(pieces, n - 1) \cup
         {t \o p : t \in TextsOf(pieces, n - 1), p \in pieces}

RECURSIVE ListsOf(_, _)
ListsOf(pool, n) ==
    IF n = 0 THEN {<<>>}
    ELSE ListsOf(pool, n - 1) \cup
         {Append(l, s) : l \in ListsOf(pool, n - 1), s \in pool}

Optional(key, values) == {EmptyDict} \cup {key :> v : v \in values}

InitWith(section_lists, personas, jobs) ==
    /\ objects \in section_lists
    /\ doc_sections = [i \in 1..Len(objects) |-> i]
    /\ input_objects = objects
    /\ user_persona \in personas
    /\ job_details \in jobs
    /\ context_data = EmptyDict
    /\ ranked_sections = <<>>
    /\ frames = <<>>
    /\ made = <<>>
    /\ pc = "start"

\* ranking: lists of sections with ties, extra fields and stale scores
RankPool ==
    {c @@ p @@ e :
        c \in Optional("content", {<<>>, <<"a","b","c">>,
                                   <<"a","b","c"," ","a","b">>}),
        p \in Optional("position", {10}),
        e \in {EmptyDict, "title" :> "intro", "relevance_score" :> 2 * SCALE}}

Init ==
    InitWith(ListsOf(RankPool, MaxSections),
             Optional("role", {<<"a","b","c">>}),
             {EmptyDict})

Spec == Init /\ [][Next]_vars

\* scoring: one section, every short text as content and as role
ScorePool ==
    {c @@ p :
        c \in Optional("content", TextsOf(ContentPieces, MaxContentPieces)),
        p \in {"position" :> i : i \in {-1, 3, 10}}}

InitScore ==
    InitWith(ListsOf(ScorePool, 1),
             Optional("role", TextsOf(RolePieces, MaxRolePieces)),
             Optional("task", {<<"\t","A","B","\n","x","y","z">>}))

SpecScore == InitScore /\ [][Next]_vars

\* length brackets: a blank followed by n tokens "w", each followed by a blank
TokensText(n) == [i \in 1..(2 * n + 1) |-> IF i % 2 = 1 THEN " " ELSE "w"]

InitLength ==
    InitWith({<<>>} \cup {<<"content" :> TokensText(n)>> : n \in 0..MaxTokens},
             {EmptyDict},
             Optional("task", {<<"w">>}))

SpecLength == InitLength /\ [][Next]_vars

\* the worked example and the prefixes of its content
ExampleRole == <<"S","t","u","d","e","n","t">>

ExampleTask == <<"l","e","a","r","n"," ","m","a","t","h">>

ExampleContent ==
    <<"m","a","t","h"," ","i","s"," ","f","u","n"," ","a","n","d"," ",
      "m","a","t","h"," ","i","s"," ","u","s","e","f","u","l">>

InitExample ==
    InitWith({<<>>} \cup
             {<<("content" :> SubSeq(ExampleContent, 1, n)) @@ ("position" :> p)>> :
                 n \in 0..Len(ExampleContent), p \in 0..3},
             {"role" :> ExampleRole},
             {"task" :> ExampleTask})

SpecExample == InitExample /\ [][Next]_vars

(***************************************************************************)
(* Properties.                                                             *)
(***************************************************************************)
ScoreFields == {"relevance_score", "final_relevance_score"}

\* relevance_score of the record behind a reference
ScoreOf(ref) == objects[ref]["relevance_score"]

\* the place of a record in the returned list
PlaceOf(ref) == CHOOSE k \in 1..Len(ranked_sections) : ranked_sections[k] = ref

\* a dictionary without its score fields
Strip(d) == [k \in DOMAIN d \ ScoreFields |-> d[k]]

\* the input section has no content, or empty content
NoContent(section) == "content" \notin DOMAIN section \/ section["content"] = <<>>

\* the call whose frame is given ran the three scorers
RanScorers(frame) ==
    {"semantic_score", "length_weight", "position_weight"} \subseteq DOMAIN frame

\* some whitespace-delimited token of the text is longer than two characters
HasLongToken(text) ==
    \E i \in 1..(Len(text) - 2) :
        \A j \in i..(i + 2) : text[j] \notin Whitespace

\* C1: for a non-empty list of sections, rank_sections returns exactly one
\* record per input section (the records made for the inputs, permuted), in
\* non-increasing order of relevance_score.
C1_SortedPermutation ==
    (pc = "done" /\ doc_sections # <<>>) =>
        LET n == Len(doc_sections)
        IN  /\ Len(ranked_sections) = n
            /\ Len(made) = n
            /\ \A i \in 1..n : Strip(objects[made[i]]) = Strip(input_objects[i])
            /\ \E p \in Permutations(1..n) :
                   \A i \in 1..n : ranked_sections[i] = made[p[i]]
            /\ \A i \in 1..n : \A j \in (i + 1)..n :
                   ScoreOf(ranked_sections[i]) >= ScoreOf(ranked_sections[j])

\* a call returned a list that the sort had to reorder
C1_Witness ==
    /\ pc = "done"
    /\ Len(doc_sections) >= 2
    /\ ranked_sections # made
    /\ ScoreOf(ranked_sections[1]) > ScoreOf(ranked_sections[2])

\* C2: stability: of two input sections with exactly equal relevance_score,
\* the one earlier in the input is earlier in the output.
C2_Stable ==
    pc = "done" =>
        \A i \in 1..Len(made) : \A j \in (i + 1)..Len(made) :
            ScoreOf(made[i]) = ScoreOf(made[j]) =>
                PlaceOf(made[i]) < PlaceOf(made[j])

\* a call returned two distinguishable records with equal scores
C2_Witness ==
    /\ pc = "done"
    /\ \E i \in 1..Len(made) : \E j \in (i + 1)..Len(made) :
          /\ ScoreOf(made[i]) = ScoreOf(made[j])
          /\ ScoreOf(made[i]) > 0
          /\ Strip(objects[made[i]]) # Strip(objects[made[j]])

\* C3: rank_sections never mutates its inputs: the input list keeps its
\* length and order and every input record keeps exactly its keys and values.
C3_InputsNotMutated ==
    /\ doc_sections = [i \in 1..Len(input_objects) |-> i]
    /\ \A i \in 1..Len(input_objects) : objects[i] = input_objects[i]

\* a call returned for an input that already carried a relevance_score,
\* and the record made for it carries another one
C3_Witness ==
    /\ pc = "done"
    /\ \E i \in 1..Len(made) :
          /\ "relevance_score" \in DOMAIN input_objects[i]
          /\ ScoreOf(made[i]) # input_objects[i]["relevance_score"]
          /\ "final_relevance_score" \notin DOMAIN objects[i]

\* C4 as stated: the record made for an input section contains every field
\* of the input section, whatever its name, with its value unchanged, and
\* the two score fields.
C4_EveryFieldKept ==
    \A i \in 1..Len(made) :
        /\ ScoreFields \subseteq DOMAIN objects[made[i]]
        /\ \A k \in DOMAIN input_objects[i] :
              /\ k \in DOMAIN objects[made[i]]
              /\ objects[made[i]][k] = input_objects[i][k]

\* C4 amended: the record made for an input section contains every field of
\* the input section other than relevance_score and final_relevance_score
\* with its value unchanged, and has relevance_score and
\* final_relevance_score both set to the computed score.
C4_OtherFieldsKept ==
    \A i \in 1..Len(made) :
        /\ DOMAIN objects[made[i]] = DOMAIN input_objects[i] \cup ScoreFields
        /\ \A k \in DOMAIN input_objects[i] \ ScoreFields :
              objects[made[i]][k] = input_objects[i][k]
        /\ \A k \in ScoreFields : objects[made[i]][k] = frames[i]["return"]

\* records were made for a section with a caller-defined field and for a
\* section that came with a relevance_score of its own
C4_Witness ==
    /\ \E i \in 1..Len(made) : "title" \in DOMAIN input_objects[i]
    /\ \E i \in 1..Len(made) :
          /\ "relevance_score" \in DOMAIN input_objects[i]
          /\ "position" \in DOMAIN input_objects[i]

\* C5: for a section with non-empty content, whatever its position and the
\* persona and job, _compute_final_score returns a value in [0, 1].
C5_ScoreInUnitInterval ==
    \A i \in 1..Len(frames) :
        ~NoContent(input_objects[i]) =>
            /\ "return" \in DOMAIN frames[i]
            /\ frames[i]["return"] >= 0
            /\ frames[i]["return"] <= SCALE

\* a section that matches no keyword, in the last position bracket, was scored
C5_Witness ==
    \E i \in 1..Len(frames) :
        /\ RanScorers(frames[i])
        /\ frames[i].tfidf.role_keywords # {}
        /\ frames[i].semantic_score = 0
        /\ frames[i].position_weight = Tenths(6)

\* C6: for a section whose content is absent or empty, _compute_final_score
\* returns 0.0 whatever the persona, job and position, and runs none of the
\* semantic, length and position scorers.
C6_EmptyContentScoresZero ==
    \A i \in 1..Len(frames) :
        NoContent(input_objects[i]) =>
            /\ "return" \in DOMAIN frames[i]
            /\ frames[i]["return"] = 0
            /\ DOMAIN frames[i] \cap
                   {"tfidf", "semantic_score", "length_weight", "position_weight"} = {}

\* a section without a content field was scored under a context with keywords
C6_Witness ==
    /\ Len(frames) = 1
    /\ "content" \notin DOMAIN input_objects[1]
    /\ HasLongToken(context_data.persona_role)
    /\ HasLongToken(context_data.job_context)

\* C7: when the role and the task are empty, missing or made of tokens of at
\* most 2 characters, _compute_tfidf_relevance returns 0.5 for any non-empty
\* content.
C7_NoKeywordsDefault ==
    \A i \in 1..Len(frames) :
        ( /\ ~NoContent(input_objects[i])
          /\ ~HasLongToken(Get(user_persona, "role", <<>>))
          /\ ~HasLongToken(Get(job_details, "task", <<>>)) ) =>
            /\ "tfidf" \in DOMAIN frames[i]
            /\ frames[i].tfidf.role_keywords = {}
            /\ frames[i].tfidf["return"] = Tenths(5)

\* a content with a long token was scored under a role of short tokens only
C7_Witness ==
    /\ Len(frames) = 1
    /\ "role" \in DOMAIN user_persona
    /\ Split(user_persona["role"]) # <<>>
    /\ ~HasLongToken(user_persona["role"])
    /\ "task" \notin DOMAIN job_details
    /\ RanScorers(frames[1])
    /\ HasLongToken(input_objects[1]["content"])
    /\ frames[1].semantic_score = Tenths(5)

\* the number of tokens of the content of the section behind frame i, when
\* the content is a text of TokensText
TokensOf(i) == (Len(input_objects[i]["content"]) - 1) \div 2

\* C8: _assess_content_length gives 0.3 for n < 10 tokens, 0.8 for
\* 10 <= n < 50, 1.0 for 50 <= n < 200, 0.7 for 200 <= n < 500 and 0.4 for
\* n >= 500; in particular 9, 10, 49, 50, 199, 200, 499 and 500 tokens give
\* 0.3, 0.8, 0.8, 1.0, 1.0, 0.7, 0.7 and 0.4.
C8_LengthBrackets ==
    \A i \in 1..Len(frames) :
        LET n == TokensOf(i)
            w == frames[i].length_weight
        IN  input_objects[i]["content"] = TokensText(n) =>
            /\ "length_weight" \in DOMAIN frames[i]
            /\ (n < 10) => w = 300000
            /\ (10 <= n /\ n < 50) => w = 800000
            /\ (50 <= n /\ n < 200) => w = 1000000
            /\ (200 <= n /\ n < 500) => w = 700000
            /\ (n >= 500) => w = 400000
            /\ (n = 9) => w = 300000
            /\ (n \in {10, 49}) => w = 800000
            /\ (n \in {50, 199}) => w = 1000000
            /\ (n \in {200, 499}) => w = 700000
            /\ (n = 500) => w = 400000

\* a content of exactly 500 tokens was scored
C8_Witness ==
    /\ Len(frames) = 1
    /\ input_objects[1]["content"] = TokensText(500)
    /\ frames[1].length_weight = 400000

KeywordStudent == <<"s","t","u","d","e","n","t">>

KeywordLearn == <<"l","e","a","r","n">>

KeywordMath == <<"m","a","t","h">>

\* the section of the worked example was scored under its persona and job
ExampleScored(i) ==
    /\ i \in 1..Len(frames)
    /\ input_objects[i] = [content |-> ExampleContent, position |-> 0]
    /\ user_persona = [role |-> ExampleRole]
    /\ job_details = [task |-> ExampleTask]

\* what the example says of the frame, for a given number of tokens
ExampleHolds(frame, tokens) ==
    /\ RanScorers(frame)
    /\ frame.tfidf.role_keywords = {KeywordStudent, KeywordLearn, KeywordMath}
    /\ MatchedKeywords(frame.tfidf.role_keywords,
                       frame.tfidf.word_frequencies) = {KeywordMath}
    /\ frame.tfidf.word_frequencies[KeywordMath] = 2
    /\ frame.tfidf.total_words = tokens
    /\ frame.tfidf.denominators = {tokens}
    /\ frame.length_weight = 300000
    /\ frame.position_weight = 1000000

\* C9 as stated: in the example the keyword set is {student, learn, math},
\* only "math" is found, twice, the tf denominator is 8, the length weight
\* is 0.3 and the position weight is 1.0.
C9_ExampleEightTokens ==
    \A i \in 1..Len(frames) : ExampleScored(i) => ExampleHolds(frames[i], 8)

\* C9 amended: as stated, but the content has 7 tokens and the tf
\* denominator is 7 (tf = 2/7).
C9_ExampleSevenTokens ==
    \A i \in 1..Len(frames) : ExampleScored(i) => ExampleHolds(frames[i], 7)

\* the example was ranked
C9_Witness == pc = "done" /\ ExampleScored(1) /\ "return" \in DOMAIN frames[1]

\* C10: no call divides by zero: whenever _sum_keyword_scores divides by
\* total_count, total_count is at least 1; content made of whitespace only
\* matches no keyword and reaches no division.
C10_NoDivisionByZero ==
    /\ pc # "raised"
    /\ \A i \in 1..Len(frames) :
          "tfidf" \in DOMAIN frames[i] =>
              /\ "return" \in DOMAIN frames[i].tfidf
              /\ \A d \in frames[i].tfidf.denominators : d >= 1
              /\ (Split(frames[i].section_content) = <<>>) =>
                     frames[i].tfidf.denominators = {}

\* a keyword was found in a content of one token, and the division was made
C10_Witness ==
    /\ pc = "done"
    /\ Len(frames) = 1
    /\ RanScorers(frames[1])
    /\ frames[1].tfidf.denominators = {1}
    /\ frames[1].semantic_score > 0

====
